---------------------------- MODULE Spec2Model ----------------------------
(***************************************************************************)
(* A model of src/es/index.js: the axios interceptors that stamp outgoing  *)
(* requests, normalise requests / responses / errors into loggable         *)
(* records, filter their headers and hand them to a logger.                *)
(*                                                                         *)
(* JavaScript objects are records (functions from property names); a       *)
(* property that is absent or holds undefined is read with Has/"\in DOMAIN"*)
(* except where the source writes the property itself (the logger          *)
(* payloads), where it holds the value Undefined.  Strings that the code   *)
(* parses or transforms (config.url, config.method) are sequences of       *)
(* one-character strings; strings it only passes on are TLA+ strings.  A   *)
(* value that is a string or null (method, url, path, the host header) is  *)
(* Str(s) or Null.                                                         *)
(***************************************************************************)
EXTENDS Integers, Sequences, FiniteSets, TLC

VARIABLES
    opts,       \* the options given to axiosBunyan (header allow/deny lists)
    config,     \* config[r]: the outgoing axios config object of request r
    phase,      \* phase[r]: "new" -> "issued" -> "settled"
    stampedAt,  \* stampedAt[r]: clock reading at r's logRequest call (-1: none)
    input,      \* input[r]: what the client handed to r's response/error hook
    outcome,    \* outcome[r]: how that hook invocation ended for the caller
    sink,       \* sink[r]: the logger calls made by r's hook invocation
    args,       \* arguments of a direct call of a helper (helper specs)
    result      \* its result

vars == <<opts, config, phase, stampedAt, input, outcome, sink, args, result>>

-----------------------------------------------------------------------------
(* Bounds of the model *)

NumRequests == 2     \* requests in flight on the client instance
MaxTick     == 1     \* the clock reads a value in {0, TickMs, .., MaxTick*TickMs}
TickMs      == 700   \* milliseconds per clock tick
MaxList     == 2     \* longest allow-list / deny-list (helper spec)

Reqs  == 1 .. NumRequests
Times == { k * TickMs : k \in 0 .. MaxTick }

-----------------------------------------------------------------------------
(* JavaScript values *)

Undefined == [type |-> "undefined"]       \* undefined, where an object is expected
Null      == <<>>                         \* null, where a string is expected
Str(s)    == <<s>>                        \* the string s, where null may be
Empty     == [k \in {} |-> Undefined]     \* the object {}

\* whether o has an own property k, whatever it holds
Has(o, k) == k \in DOMAIN o

\* whether the object-valued property k of o is truthy: a property that is
\* absent, and one that is present and holds undefined, are not
Defined(o, k) == Has(o, k) /\ o[k] # Undefined

\* `s || ''` for a header value: absent, null and '' are falsy
OrEmpty(o, k) == IF Has(o, k) /\ o[k] # Null THEN o[k][1] ELSE ""

\* A call either returns a value or throws
Return(v) == [threw |-> FALSE, value |-> v]
Throw(e)  == [threw |-> TRUE, error |-> e]

\* Object.assign(target, source): source's properties win
ObjectAssign(target, source) == source @@ target

\* the property k |-> o[from] when o has it, nothing otherwise
Prop(k, o, from) == IF Has(o, from) THEN k :> o[from] ELSE Empty

\* the string made of the characters cs
Join(cs) ==
    LET upTo[i \in 0 .. Len(cs)] == IF i = 0 THEN "" ELSE upTo[i - 1] \o cs[i]
    IN  upTo[Len(cs)]

LowerCase == <<"a","b","c","d","e","f","g","h","i","j","k","l","m",
               "n","o","p","q","r","s","t","u","v","w","x","y","z">>
UpperCase == <<"A","B","C","D","E","F","G","H","I","J","K","L","M",
               "N","O","P","Q","R","S","T","U","V","W","X","Y","Z">>

IsLower(c) == \E i \in DOMAIN LowerCase : LowerCase[i] = c
IsUpper(c) == \E i \in DOMAIN UpperCase : UpperCase[i] = c
IsLetter(c) == IsLower(c) \/ IsUpper(c)
ToUpperChar(c) ==
    IF IsLower(c) THEN UpperCase[CHOOSE i \in DOMAIN LowerCase : LowerCase[i] = c]
    ELSE c
ToLowerChar(c) ==
    IF IsUpper(c) THEN LowerCase[CHOOSE i \in DOMAIN UpperCase : UpperCase[i] = c]
    ELSE c

\* String.prototype.toUpperCase / toLowerCase
toUpperCase(cs) == [i \in DOMAIN cs |-> ToUpperChar(cs[i])]
toLowerCase(cs) == [i \in DOMAIN cs |-> ToLowerChar(cs[i])]

\* index of the first character of cs that is in set, Len(cs)+1 when none is
FirstOf(cs, set) ==
    IF \E i \in DOMAIN cs : cs[i] \in set
    THEN CHOOSE i \in DOMAIN cs : cs[i] \in set /\ \A j \in 1 .. i-1 : cs[j] \notin set
    ELSE Len(cs) + 1

-----------------------------------------------------------------------------
(* Date: new Date().toISOString() and new Date(iso).getTime().  The ISO     *)
(* string 1970-01-01T00:MM:SS.mmmZ is kept as its minute, second and        *)
(* millisecond fields.                                                      *)

toISOString(t) ==
    [min |-> (t \div 60000) % 60, sec |-> (t \div 1000) % 60, ms |-> t % 1000]

getTime(iso) == iso.min * 60000 + iso.sec * 1000 + iso.ms

-----------------------------------------------------------------------------
(* lodash pick / omit on a flat header object, paths given as an array of   *)
(* names without "." and "["                                                *)

Elems(list) == { list[i] : i \in DOMAIN list }

\* what every object inherits from Object.prototype
ObjectPrototypeNames ==
    {"constructor", "hasOwnProperty", "isPrototypeOf", "propertyIsEnumerable",
     "toLocaleString", "toString", "valueOf", "__defineGetter__",
     "__defineSetter__", "__lookupGetter__", "__lookupSetter__", "__proto__"}
Inherited(k) == [inherited |-> k]

\* pick keeps a path the object has, own or inherited (hasIn)
pick(object, paths) ==
    [k \in Elems(paths) \cap (DOMAIN object \cup ObjectPrototypeNames) |->
        IF k \in DOMAIN object THEN object[k] ELSE Inherited(k)]

omit(object, paths) == [k \in DOMAIN object \ Elems(paths) |-> object[k]]

\* filterHeaders({ headers, whitelistHeaders, blacklistHeaders }).  pick and
\* omit of an undefined object give {}; omit(object, undefined) takes
\* undefined as the one path to remove, the key "undefined".  A list of
\* names that is undefined is an absent property of o.
filterHeaders(o) ==
    IF ~Defined(o, "headers") THEN Empty
    ELSE
    LET whitelistedHeaders ==
            IF Has(o, "whitelistHeaders") THEN pick(o.headers, o.whitelistHeaders)
            ELSE o.headers
    IN  IF Has(o, "blacklistHeaders") THEN omit(whitelistedHeaders, o.blacklistHeaders)
        ELSE omit(whitelistedHeaders, <<"undefined">>)

-----------------------------------------------------------------------------
(* url.parse(urlString) of Node's legacy url module (lib/url.js of Node 18  *)
(* to 22): the fields host and path of the result, or what it throws.  The  *)
(* URL is a sequence of ASCII characters that a TLA+ string can hold (no    *)
(* backquote; of the control characters tab, LF, CR and form feed); no      *)
(* label of the host starts with "xn--" (punycode is not decoded).          *)

Digits == {"0", "1", "2", "3", "4", "5", "6", "7", "8", "9"}
IsWs(c) == c \in {" ", "\t", "\n", "\r", "\f"}

Take(cs, n) == SubSeq(cs, 1, n)              \* cs.slice(0, n)
Drop(cs, n) == SubSeq(cs, n + 1, Len(cs))    \* cs.slice(n)
StartsWith(cs, prefix) == Len(cs) >= Len(prefix) /\ Take(cs, Len(prefix)) = prefix

\* leading and trailing whitespace is dropped
Trim(cs) ==
    IF \A i \in DOMAIN cs : IsWs(cs[i]) THEN <<>>
    ELSE SubSeq(cs, CHOOSE i \in DOMAIN cs : ~IsWs(cs[i]) /\ \A j \in 1 .. i-1 : IsWs(cs[j]),
                    CHOOSE i \in DOMAIN cs : ~IsWs(cs[i]) /\ \A j \in i+1 .. Len(cs) : IsWs(cs[j]))

\* a backslash before the first "?" or "#" becomes "/"
BackslashesToSlashes(cs) ==
    [i \in 1 .. Len(cs) |->
        IF cs[i] = "\\" /\ i < FirstOf(cs, {"?", "#"}) THEN "/" ELSE cs[i]]

HasHash(cs) == \E i \in DOMAIN cs : cs[i] = "#"
HasAt(cs)   == \E i \in DOMAIN cs : cs[i] = "@" /\ i < FirstOf(cs, {"?", "#"})

\* simplePathPattern /^(\/\/?(?!\/)[^?\s]*)(\?[^\s]*)?$/, tried when the URL
\* has no "#" and no "@"
IsSimplePath(rest) ==
    /\ ~HasHash(rest) /\ ~HasAt(rest)
    /\ Len(rest) >= 1 /\ rest[1] = "/"
    /\ ~(Len(rest) >= 3 /\ rest[2] = "/" /\ rest[3] = "/")
    /\ \A i \in DOMAIN rest : ~IsWs(rest[i])

\* protocolPattern /^[a-z0-9.+-]+:/i
ProtocolChars(cs) ==
    \A i \in DOMAIN cs : IsLetter(cs[i]) \/ cs[i] \in Digits \/ cs[i] \in {".", "+", "-"}

\* the length of the protocol with its colon, 0 when there is none
ProtocolLen(cs) ==
    IF /\ FirstOf(cs, {":"}) > 1
       /\ FirstOf(cs, {":"}) <= Len(cs)
       /\ ProtocolChars(Take(cs, FirstOf(cs, {":"}) - 1))
    THEN FirstOf(cs, {":"}) ELSE 0

\* hostPattern /^\/\/[^@/]+@[^@/]+/
HostPattern(cs) ==
    /\ StartsWith(cs, <<"/", "/">>)
    /\ FirstOf(Drop(cs, 2), {"@", "/"}) > 1
    /\ FirstOf(Drop(cs, 2), {"@", "/"}) + 1 <= Len(cs) - 2
    /\ cs[2 + FirstOf(Drop(cs, 2), {"@", "/"})] = "@"
    /\ cs[3 + FirstOf(Drop(cs, 2), {"@", "/"})] \notin {"@", "/"}

SlashedProtocol  == {"http:", "https:", "ftp:", "gopher:", "file:", "ws:", "wss:"}
HostlessProtocol == {"javascript:"}
HostEndingChars  == {"#", "/", "?"}
NonHostChars     == {" ", "\"", "%", "'", ";", "<", ">", "\\", "^", "{", "|", "}"}
RemovedInHost    == {"\t", "\n", "\r"}
HostnameMaxLen   == 255

URIError        == [name |-> "URIError"]
ERR_INVALID_URL == [name |-> "TypeError", code |-> "ERR_INVALID_URL"]

\* autoEscapeStr: the characters url.parse percent-escapes after the host
EscapeChar(c) ==
    CASE c = "\t" -> <<"%", "0", "9">>
      [] c = "\n" -> <<"%", "0", "A">>
      [] c = "\r" -> <<"%", "0", "D">>
      [] c = " "  -> <<"%", "2", "0">>
      [] c = "\"" -> <<"%", "2", "2">>
      [] c = "'"  -> <<"%", "2", "7">>
      [] c = "<"  -> <<"%", "3", "C">>
      [] c = ">"  -> <<"%", "3", "E">>
      [] c = "\\" -> <<"%", "5", "C">>
      [] c = "^"  -> <<"%", "5", "E">>
      [] c = "{"  -> <<"%", "7", "B">>
      [] c = "|"  -> <<"%", "7", "C">>
      [] c = "}"  -> <<"%", "7", "D">>
      [] OTHER    -> <<c>>

AutoEscape(cs) ==
    LET upTo[i \in 0 .. Len(cs)] ==
            IF i = 0 THEN <<>> ELSE upTo[i - 1] \o EscapeChar(cs[i])
    IN  upTo[Len(cs)]

\* pathname, search and path of what follows the host; host is the host
\* (Null without one), hostname whether the hostname is not empty
ParsePath(lowerProto, host, hostname, pathname, search) ==
    Return([host |-> host,
            path |-> IF lowerProto \in SlashedProtocol /\ hostname /\ pathname = <<>>
                     THEN Str(Join(<<"/">> \o search))
                     ELSE IF pathname \o search = <<>> THEN Null
                     ELSE Str(Join(pathname \o search))])

\* the fragment is cut off, the search starts at the first "?"
ParseNoHash(lowerProto, host, hostname, rest) ==
    ParsePath(lowerProto, host, hostname,
              Take(rest, FirstOf(rest, {"?"}) - 1), Drop(rest, FirstOf(rest, {"?"}) - 1))

ParseRest(lowerProto, host, hostname, rest) ==
    IF lowerProto \in HostlessProtocol
    THEN ParseNoHash(lowerProto, host, hostname, Take(rest, FirstOf(rest, {"#"}) - 1))
    ELSE ParseNoHash(lowerProto, host, hostname,
                     Take(AutoEscape(rest), FirstOf(AutoEscape(rest), {"#"}) - 1))

\* this.host = lower-cased hostname + ":" + port
HostString(hostname, port) ==
    Join(toLowerCase(hostname)) \o (IF port = <<>> THEN "" ELSE ":" \o Join(port))

\* a hostname longer than hostnameMaxLen becomes ''; one that still has a
\* forbidden host character ("[" or "]" outside an IPv6 literal) is refused
CheckHostname(lowerProto, hostname, port, rest, ipv6) ==
    IF /\ Len(hostname) <= HostnameMaxLen /\ ~ipv6
       /\ \E i \in DOMAIN hostname : hostname[i] \in {"[", "]"}
    THEN Throw(ERR_INVALID_URL)
    ELSE ParseRest(lowerProto,
                   Str(HostString(IF Len(hostname) > HostnameMaxLen THEN <<>> ELSE hostname,
                                  port)),
                   IF ipv6 THEN Len(hostname) \in 3 .. HostnameMaxLen
                   ELSE Len(hostname) \in 1 .. HostnameMaxLen,
                   rest)

\* isIpv6Hostname: the hostname begins with "[" and ends with "]"
IsIpv6Hostname(hostname) ==
    hostname # <<>> /\ hostname[1] = "[" /\ hostname[Len(hostname)] = "]"

\* getHostname: where a hostname that is no IPv6 literal is cut, at its first
\* ":" (or "/", "\", "#", "?")
HostnameEnd(hostname) ==
    IF IsIpv6Hostname(hostname) THEN Len(hostname) + 1
    ELSE FirstOf(hostname, {"/", "\\", "#", "?", ":"})

\* what is cut from the hostname goes back in front of the rest after a "/";
\* after an IPv6 literal the rest starts with "/"
ParseHostname(lowerProto, hostname, port, rest) ==
    CheckHostname(lowerProto, Take(hostname, HostnameEnd(hostname) - 1), port,
                  IF IsIpv6Hostname(hostname)
                  THEN (IF StartsWith(rest, <<"/">>) THEN rest ELSE <<"/">> \o rest)
                  ELSE IF HostnameEnd(hostname) > Len(hostname) THEN rest
                  ELSE <<"/">> \o Drop(hostname, HostnameEnd(hostname) - 1) \o rest,
                  IsIpv6Hostname(hostname))

\* parseHost: where the port /:[0-9]*$/ starts in host, Len(host)+1 without one
PortAt(host) ==
    IF \E k \in DOMAIN host :
          host[k] = ":" /\ \A j \in k+1 .. Len(host) : host[j] \in Digits
    THEN CHOOSE k \in DOMAIN host :
          host[k] = ":" /\ \A j \in k+1 .. Len(host) : host[j] \in Digits
    ELSE Len(host) + 1

ParsePort(lowerProto, host, rest) ==
    ParseHostname(lowerProto, Take(host, PortAt(host) - 1), Drop(host, PortAt(host)), rest)

\* the last "@" before the first host-ending character, 0 when there is none
AtSign(cs) ==
    IF \E i \in DOMAIN cs : cs[i] = "@" /\ i < FirstOf(cs, HostEndingChars)
    THEN CHOOSE i \in DOMAIN cs :
            /\ cs[i] = "@" /\ i < FirstOf(cs, HostEndingChars)
            /\ \A j \in i+1 .. FirstOf(cs, HostEndingChars) - 1 : cs[j] # "@"
    ELSE 0

HexChars == <<"0", "1", "2", "3", "4", "5", "6", "7", "8", "9", "a", "b", "c", "d", "e", "f">>
IsHex(c) == \E i \in DOMAIN HexChars : HexChars[i] = ToLowerChar(c)
HexVal(c) == (CHOOSE i \in DOMAIN HexChars : HexChars[i] = ToLowerChar(c)) - 1

\* the byte of the escape %XX at position i of cs, -1 when there is none
ByteAt(cs, i) ==
    IF i + 2 <= Len(cs) /\ cs[i] = "%" /\ IsHex(cs[i + 1]) /\ IsHex(cs[i + 2])
    THEN 16 * HexVal(cs[i + 1]) + HexVal(cs[i + 2])
    ELSE -1

\* whether the k-th escape after position i of cs is a byte in lo .. hi
Continuation(cs, i, k, lo, hi) == ByteAt(cs, i + 3 * k) \in lo .. hi

\* how many characters the escape sequence at position i of cs, with first
\* byte lead, takes when it is one well-formed UTF-8 code point, 0 when not
SequenceLen(cs, i, lead) ==
    CASE lead \in 0 .. 127 -> 3
      [] lead \in 194 .. 223 /\ Continuation(cs, i, 1, 128, 191) -> 6
      [] lead \in 224 .. 239
            /\ Continuation(cs, i, 1, IF lead = 224 THEN 160 ELSE 128,
                                      IF lead = 237 THEN 159 ELSE 191)
            /\ Continuation(cs, i, 2, 128, 191) -> 9
      [] lead \in 240 .. 244
            /\ Continuation(cs, i, 1, IF lead = 240 THEN 144 ELSE 128,
                                      IF lead = 244 THEN 143 ELSE 191)
            /\ Continuation(cs, i, 2, 128, 191)
            /\ Continuation(cs, i, 3, 128, 191) -> 12
      [] OTHER -> 0

EscapeLen(cs, i) == SequenceLen(cs, i, ByteAt(cs, i))

\* whether decodeURIComponent(cs) returns: every "%" starts a well-formed escape
Decodes(cs) ==
    LET from[i \in 1 .. Len(cs) + 1] ==
            IF i > Len(cs) THEN TRUE
            ELSE IF cs[i] # "%" THEN from[i + 1]
            ELSE EscapeLen(cs, i) > 0 /\ from[i + EscapeLen(cs, i)]
    IN  from[1]

\* the host runs from after the last "@" to the first character that cannot
\* be in a host; what is before the "@" is decoded as the auth
ParseAuth(lowerProto, rest) ==
    IF AtSign(rest) > 0 /\ ~Decodes(Take(rest, AtSign(rest) - 1))
    THEN Throw(URIError)
    ELSE ParsePort(lowerProto,
                   Take(Drop(rest, AtSign(rest)),
                        FirstOf(Drop(rest, AtSign(rest)), NonHostChars \cup HostEndingChars) - 1),
                   Drop(Drop(rest, AtSign(rest)),
                        FirstOf(Drop(rest, AtSign(rest)), NonHostChars \cup HostEndingChars) - 1))

NotRemovedInHost(c) == c \notin RemovedInHost

\* tab, LF and CR are removed up to the first host-ending character
ParseHost(lowerProto, rest) ==
    ParseAuth(lowerProto,
              SelectSeq(Take(rest, FirstOf(rest, HostEndingChars) - 1), NotRemovedInHost)
                 \o Drop(rest, FirstOf(rest, HostEndingChars) - 1))

\* whether a host follows: after "//", or after a protocol that is not a slashed one
ParseAfterProtocol(proto, rest) ==
    IF Join(toLowerCase(proto)) \in HostlessProtocol
    THEN ParseRest(Join(toLowerCase(proto)), Null, FALSE, rest)
    ELSE IF (proto # <<>> \/ HostPattern(rest)) /\ StartsWith(rest, <<"/", "/">>)
    THEN ParseHost(Join(toLowerCase(proto)), Drop(rest, 2))
    ELSE IF proto # <<>> /\ Join(proto) \notin SlashedProtocol
    THEN ParseHost(Join(toLowerCase(proto)), rest)
    ELSE ParseRest(Join(toLowerCase(proto)), Null, FALSE, rest)

ParseGeneral(rest) ==
    ParseAfterProtocol(Take(rest, ProtocolLen(rest)), Drop(rest, ProtocolLen(rest)))

ParseTrimmed(rest) ==
    IF IsSimplePath(rest) THEN Return([host |-> Null, path |-> Str(Join(rest))])
    ELSE ParseGeneral(rest)

URLparse(cs) == ParseTrimmed(BackslashesToSlashes(Trim(cs)))

\* the request built from a config with the URL's host forced over config.headers
ClientRequest_HostWins(cfg, parsedUrl) ==
    IF parsedUrl.threw THEN parsedUrl
    ELSE Return([timestamp |-> IF Has(cfg, "timestamp") THEN cfg.timestamp ELSE Undefined,
                 method    |-> Str(Join(toUpperCase(cfg.method))),
                 url       |-> parsedUrl.value.path,
                 headers   |-> ObjectAssign(cfg.headers, [host |-> parsedUrl.value.host])])

createClientRequestFromConfig_HostWins(cfg) ==
    ClientRequest_HostWins(cfg, URLparse(cfg.url))

\* the object createClientRequestFromConfig returns, parsedUrl being the
\* outcome of URL.parse(config.url): a throw of URL.parse ends the call
ClientRequest(cfg, parsedUrl) ==
    IF parsedUrl.threw THEN parsedUrl
    ELSE Return([timestamp |-> IF Has(cfg, "timestamp") THEN cfg.timestamp ELSE Undefined,
                 method    |-> Str(Join(toUpperCase(cfg.method))),
                 url       |-> parsedUrl.value.path,
                 headers   |-> ObjectAssign([host |-> parsedUrl.value.host], cfg.headers)])

\* createClientRequestFromConfig(config)
createClientRequestFromConfig(cfg) == ClientRequest(cfg, URLparse(cfg.url))
\* whether the string property k of o is truthy: absent, null and '' are not
Truthy(o, k) == Has(o, k) /\ o[k] \notin {Null, Str("")}

\* `${o[k]}` in a template literal
Template(o, k) ==
    IF ~Has(o, k) THEN "undefined" ELSE IF o[k] = Null THEN "null" ELSE o[k][1]

\* makeRequestLine(request)
makeRequestLine(request) ==
    LET headers == IF Defined(request, "headers") THEN request.headers
                   ELSE IF Defined(request, "_headers") THEN request._headers
                   ELSE Empty
        host    == OrEmpty(headers, "host")
        url     == IF Truthy(request, "url") THEN request.url[1]
                   ELSE Template(request, "path")
    IN  Template(request, "method") \o " " \o host \o url

-----------------------------------------------------------------------------
(* The two normalisers of an exchange *)

\* what reading a property of undefined throws
TypeError == [name |-> "TypeError"]

\* formatRequest of @softonic/http-log-format, on the fields this code passes on
formatRequest(nativeRequest) ==
    [timestamp |-> nativeRequest.timestamp,
     method    |-> nativeRequest.method,
     url       |-> nativeRequest.path]
    @@ Prop("headers", nativeRequest, "headers")

\* formatResponse of @softonic/http-log-format, on the fields this code passes on
formatResponse(nativeResponse) ==
    [timestamp    |-> nativeResponse.timestamp,
     statusCode   |-> nativeResponse.statusCode,
     headers      |-> nativeResponse.headers,
     responseTime |-> nativeResponse.responseTime]

\* getLoggableRequestFromAxiosResponse({ axiosResponse, whitelistRequestHeaders,
\* blacklistRequestHeaders }): o is the one argument, the options object
getLoggableRequestFromAxiosResponse(o) ==
    IF ~Defined(o, "axiosResponse") \/ ~Defined(o.axiosResponse, "config")
    THEN Throw(TypeError)
    ELSE
    LET axiosResponse == o.axiosResponse
        timestamp == IF Has(axiosResponse.config, "timestamp")
                     THEN axiosResponse.config.timestamp ELSE Undefined
        nativeRequest == ObjectAssign([timestamp |-> timestamp], axiosResponse.request)
        loggableRequest == formatRequest(nativeRequest)
    IN  Return(ObjectAssign(loggableRequest,
                  [headers |->
                     filterHeaders(Prop("headers", loggableRequest, "headers")
                                   @@ Prop("whitelistHeaders", o, "whitelistRequestHeaders")
                                   @@ Prop("blacklistHeaders", o, "blacklistRequestHeaders"))]))

\* the elapsed time clamped at zero
ResponseTime_Clamped(now, requestTimestamp) ==
    IF now - getTime(requestTimestamp) < 0 THEN 0 ELSE now - getTime(requestTimestamp)

\* responseTime: now - new Date(requestTimestamp).getTime()
ResponseTime(now, requestTimestamp) == now - getTime(requestTimestamp)

\* getLoggableResponseFromAxiosResponse logging the response headers as received
getLoggableResponseFromAxiosResponse_Unfiltered(o, now) ==
    IF ~Defined(o, "axiosResponse") \/ ~Defined(o.axiosResponse, "config")
    THEN Throw(TypeError)
    ELSE Return(formatResponse(
                   [timestamp    |-> toISOString(now),
                    statusCode   |-> o.axiosResponse.status,
                    headers      |-> o.axiosResponse.headers,
                    responseTime |-> ResponseTime(now, o.axiosResponse.config.timestamp)]))

\* getLoggableResponseFromAxiosResponse({ axiosResponse, whitelistResponseHeaders,
\* blacklistResponseHeaders }); now is what new Date() reads
getLoggableResponseFromAxiosResponse(o, now) ==
    IF ~Defined(o, "axiosResponse") \/ ~Defined(o.axiosResponse, "config")
    THEN Throw(TypeError)
    ELSE
    LET axiosResponse == o.axiosResponse
        requestTimestamp == axiosResponse.config.timestamp
        pseudoNativeResponse ==
            [timestamp    |-> toISOString(now),
             statusCode   |-> axiosResponse.status,
             headers      |-> axiosResponse.headers,
             responseTime |-> ResponseTime(now, requestTimestamp)]
        loggableResponse == formatResponse(pseudoNativeResponse)
    IN  Return([loggableResponse EXCEPT !.headers =
                  filterHeaders([headers |-> loggableResponse.headers]
                                @@ Prop("whitelistHeaders", o, "whitelistResponseHeaders")
                                @@ Prop("blacklistHeaders", o, "blacklistResponseHeaders"))])

-----------------------------------------------------------------------------
(* The three interceptors of axiosBunyan(axios, options).  Each returns the *)
(* logger calls it made and how it ended for the caller.                    *)

Fulfilled(v) == [kind |-> "fulfilled", value |-> v]
Rejected(e)  == [kind |-> "rejected", reason |-> e]
Pending      == [kind |-> "pending"]

Call(level, payload, msg) == [level |-> level, payload |-> payload, msg |-> msg]

\* logRequest stamping whole seconds only
logRequest_WholeSeconds(cfg, now) ==
    ObjectAssign(cfg, [timestamp |-> toISOString(now - (now % 1000))])

\* logRequest(config): now is what new Date() reads
logRequest(cfg, now) == ObjectAssign(cfg, [timestamp |-> toISOString(now)])

\* the logger call of logResponse(axiosResponse)
logResponseCalls(axiosResponse, now, options) ==
    LET request == getLoggableRequestFromAxiosResponse(
                       [axiosResponse |-> axiosResponse]
                       @@ Prop("whitelistRequestHeaders", options, "whitelistRequestHeaders")
                       @@ Prop("blacklistRequestHeaders", options, "blacklistRequestHeaders")).value
        response == getLoggableResponseFromAxiosResponse(
                       [axiosResponse |-> axiosResponse]
                       @@ Prop("whitelistResponseHeaders", options, "whitelistResponseHeaders")
                       @@ Prop("blacklistResponseHeaders", options, "blacklistResponseHeaders"),
                       now).value
    IN  << Call("info", [request |-> request, response |-> response],
                makeRequestLine(request) \o " " \o ToString(response.statusCode)) >>

\* logResponse handing on the exchange with the headers it logged
logResponseReturn_Filtered(axiosResponse, options) ==
    [axiosResponse EXCEPT !.headers =
        filterHeaders([headers |-> axiosResponse.headers]
                      @@ Prop("whitelistHeaders", options, "whitelistResponseHeaders")
                      @@ Prop("blacklistHeaders", options, "blacklistResponseHeaders"))]

\* what logResponse(axiosResponse) returns
logResponseReturn(axiosResponse, options) == axiosResponse

\* logResponse(axiosResponse)
logResponse(axiosResponse, now, options) ==
    [calls   |-> logResponseCalls(axiosResponse, now, options),
     outcome |-> Fulfilled(logResponseReturn(axiosResponse, options))]

\* the summary line of logError with another text when there is no request
requestLineOf_OtherSentinel(request) ==
    IF request # Undefined THEN makeRequestLine(request) ELSE "Unknown client request"

\* requestLine in logError: the request's line, or the sentinel
requestLineOf(request) ==
    IF request # Undefined THEN makeRequestLine(request) ELSE "Undefined client request"

\* logError(error)
logError(error, now, options) ==
    LET req == IF Defined(error, "response")
               THEN getLoggableRequestFromAxiosResponse(error.response)
               ELSE IF Defined(error, "config")
                    THEN createClientRequestFromConfig(error.config)
                    ELSE Return(Undefined)
    IN  IF req.threw THEN [calls |-> <<>>, outcome |-> Rejected(req.error)]
        ELSE
        LET request == req.value
            requestLine == requestLineOf(request)
        IN  IF Defined(error, "response")
            THEN LET res == getLoggableResponseFromAxiosResponse(error.response, now)
                 IN  IF res.threw THEN [calls |-> <<>>, outcome |-> Rejected(res.error)]
                     ELSE [calls   |-> << Call("error",
                                               [request |-> request, response |-> res.value],
                                               requestLine \o " "
                                                 \o ToString(res.value.statusCode)) >>,
                           outcome |-> Rejected(error)]
            ELSE [calls   |-> << Call("error", [request |-> request, error |-> error],
                                      requestLine \o " ERROR") >>,
                  outcome |-> Rejected(error)]

-----------------------------------------------------------------------------
(* The client around the interceptors: the configs it sends, the native     *)
(* request it builds for a config, the responses and errors it hands over.  *)

UrlApi      == <<"h","t","t","p",":","/","/","A","P","I",".","i","o","/","x","?","q">>
UrlRelative == <<"/","y">>

\* the config the client sends for request r, before it is stamped
ConfigFor(r) ==
    IF r % 2 = 1
    THEN [url |-> UrlApi, method |-> <<"g","e","t">>, headers |-> [auth |-> "t"]]
    ELSE [url |-> UrlRelative, method |-> <<"p","o","s","t">>,
          headers |-> [host |-> Str("b.io"), auth |-> "u"]]

\* axiosResponse.request: the own fields of the http.ClientRequest issued
\* for request r that the code reads.  The headers are behind getHeaders(),
\* the object has no headers and no _headers field.
ClientRequestFor(r) ==
    IF r % 2 = 1
    THEN [method |-> Str("GET"), path |-> Str("/x?q"), host |-> Str("api.io")]
    ELSE [method |-> Str("POST"), path |-> Str("/y"), host |-> Str("localhost")]

ResponseOk ==
    [status |-> 200, data |-> "ok",
     headers |-> ("content-type" :> "json") @@ ("set-cookie" :> "sid")]
ResponseNotFound ==
    [status |-> 404, data |-> "missing",
     headers |-> ("content-type" :> "text") @@ ("set-cookie" :> "gone")]

\* the responses the client may hand to the fulfilment hook
ResponseChoices == { ResponseOk, ResponseNotFound }
\* the upstream responses an error may carry
ErrorResponses == { ResponseNotFound }

\* the exchange (axios response) of a response x to request r
Exchange(x, r) ==
    [status |-> x.status, data |-> x.data, headers |-> x.headers,
     config |-> config[r], request |-> ClientRequestFor(r)]

\* the errors the client may pass to the rejection hook of a request
BareError == [name |-> "Error", message |-> "boom"]
ConfigError(cfg) == [name |-> "Error", message |-> "Network Error", config |-> cfg]
ResponseError(x, r) ==
    [name |-> "Error", message |-> "Request failed", config |-> config[r],
     response |-> Exchange(x, r)]

ErrorChoices(r) ==
    IF phase[r] = "new" THEN { BareError }
    ELSE { BareError, ConfigError(config[r]) }
         \cup { ResponseError(x, r) : x \in ErrorResponses }

\* the options of axiosBunyan: which of the four lists are given, and their names
PolicyChoices ==
    { [whitelistRequestHeaders  |-> <<"host", "auth">>,
       blacklistRequestHeaders  |-> <<"auth">>,
       blacklistResponseHeaders |-> <<"set-cookie">>],
      [blacklistRequestHeaders  |-> <<"host">>,
       whitelistResponseHeaders |-> <<"set-cookie", "etag">>] }

NoInput == [kind |-> "none"]

-----------------------------------------------------------------------------
(* The lifecycle of the requests of one client instance *)

InitHelper == args = Undefined /\ result = Undefined

InitLifecycle(policies) ==
    /\ opts \in policies
    /\ config = [r \in Reqs |-> Empty]
    /\ phase = [r \in Reqs |-> "new"]
    /\ stampedAt = [r \in Reqs |-> -1]
    /\ input = [r \in Reqs |-> NoInput]
    /\ outcome = [r \in Reqs |-> Pending]
    /\ sink = [r \in Reqs |-> <<>>]

Init == InitLifecycle(PolicyChoices) /\ InitHelper

\* axios.interceptors.request.use(logRequest): the request hook runs for r
LogRequest(r) ==
    /\ phase[r] = "new"
    /\ \E now \in Times :
          /\ config' = [config EXCEPT ![r] = logRequest(ConfigFor(r), now)]
          /\ stampedAt' = [stampedAt EXCEPT ![r] = now]
    /\ phase' = [phase EXCEPT ![r] = "issued"]
    /\ UNCHANGED <<opts, input, outcome, sink, args, result>>

\* axios.interceptors.response.use(logResponse, _): the fulfilment hook runs for r
LogResponse(r) ==
    /\ phase[r] = "issued"
    /\ \E x \in ResponseChoices, now \in Times :
          LET axiosResponse == Exchange(x, r)
              done == logResponse(axiosResponse, now, opts)
          IN  /\ input' = [input EXCEPT ![r] =
                     [kind |-> "response", value |-> axiosResponse]]
              /\ outcome' = [outcome EXCEPT ![r] = done.outcome]
              /\ sink' = [sink EXCEPT ![r] = sink[r] \o done.calls]
    /\ phase' = [phase EXCEPT ![r] = "settled"]
    /\ UNCHANGED <<opts, config, stampedAt, args, result>>

\* axios.interceptors.response.use(_, logError): the rejection hook runs for r
LogError(r) ==
    /\ phase[r] \in {"new", "issued"}
    /\ \E error \in ErrorChoices(r), now \in Times :
          LET done == logError(error, now, opts)
          IN  /\ input' = [input EXCEPT ![r] =
                     [kind |-> "error", value |-> error]]
              /\ outcome' = [outcome EXCEPT ![r] = done.outcome]
              /\ sink' = [sink EXCEPT ![r] = sink[r] \o done.calls]
    /\ phase' = [phase EXCEPT ![r] = "settled"]
    /\ UNCHANGED <<opts, config, stampedAt, args, result>>

Next ==
    \/ \E r \in Reqs : LogRequest(r)
    \/ \E r \in Reqs : LogResponse(r)
    \/ \E r \in Reqs : LogError(r)

Spec == Init /\ [][Next]_vars

-----------------------------------------------------------------------------
(* filterHeaders called directly on bounded arguments *)

HeaderNames  == {"host", "auth", "undefined", "constructor"}
HeaderValues == {"1", "2"}
HeaderMaps   == UNION { [S -> HeaderValues] : S \in SUBSET HeaderNames }
NameLists    == UNION { [1 .. n -> HeaderNames] : n \in 0 .. MaxList }

FilterArgs ==
    { [headers |-> h] @@ w @@ b :
        h \in HeaderMaps,
        w \in {Empty} \cup { [whitelistHeaders |-> l] : l \in NameLists },
        b \in {Empty} \cup { [blacklistHeaders |-> l] : l \in NameLists } }

InitFilter ==
    /\ InitLifecycle({Empty})
    /\ args \in FilterArgs
    /\ result = Undefined

CallFilterHeaders ==
    /\ result = Undefined
    /\ result' = Return(filterHeaders(args))
    /\ UNCHANGED <<opts, config, phase, stampedAt, input, outcome, sink, args>>

NextFilter == CallFilterHeaders

SpecFilter == InitFilter /\ [][NextFilter]_vars

-----------------------------------------------------------------------------
(* createClientRequestFromConfig called directly on bounded configs *)

UrlExample  == <<"h","t","t","p",":","/","/","e","x","a","m","p","l","e",".","c","o","m","/","x">>
UrlNoPath   == <<"h","t","t","p",":","/","/","E","X","A","M","P","L","E",".","c","o","m">>
UrlPortHash == <<"h","t","t","p","s",":","/","/","a",".","i","o",":","8","/","x","?","q","=","1","#","f">>
UrlQuery    == <<"H","T","T","P",":","/","/","a",".","i","o","?","q">>
UrlUserInfo == <<"h","t","t","p",":","/","/","u","@","a",".","i","o","/","x">>
UrlScheme   == <<"h","2",":","/","/","a",".","i","o">>
UrlSpace    == <<"/","X"," ","y">>
UrlNoHost   == <<"h","t","t","p",":","/","/","/","x">>
UrlBadAuth  == <<"h","t","t","p",":","/","/","%","@","a",".","i","o","/","x">>
UrlTab      == <<"h","t","t","p",":","/","/","a","\t","b",".","i","o","/","x">>

ConfigUrls ==
    { UrlExample, UrlNoPath, UrlPortHash, UrlQuery, UrlApi, UrlRelative,
      UrlUserInfo, UrlScheme, UrlSpace, UrlNoHost, UrlBadAuth, UrlTab }
ConfigMethods == { <<"p","o","s","t">>, <<"G","E","T">>, <<"D","e","l","e","t","e">> }
ConfigHeaders ==
    { Empty, [auth |-> "t"], [host |-> Str("other.io")], [host |-> Str("example.com")],
      [host |-> Str("other.io"), auth |-> "t"] }

ConfigArgs ==
    { [url |-> u, method |-> m, headers |-> h] @@ t :
        u \in ConfigUrls, m \in ConfigMethods, h \in ConfigHeaders,
        t \in { Empty } \cup { [timestamp |-> toISOString(x)] : x \in Times } }

InitConfig ==
    /\ InitLifecycle({Empty})
    /\ args \in ConfigArgs
    /\ result = Undefined

CallCreateClientRequest ==
    /\ result = Undefined
    /\ result' = createClientRequestFromConfig(args)
    /\ UNCHANGED <<opts, config, phase, stampedAt, input, outcome, sink, args>>

NextConfig == CallCreateClientRequest

SpecConfig == InitConfig /\ [][NextConfig]_vars

-----------------------------------------------------------------------------
(* Properties *)

Settled(r, kind) == input[r].kind = kind

\* the payloads handed to the logger by r's hook invocation
Payloads(r) == { sink[r][i].payload : i \in DOMAIN sink[r] }

\* the exchange carried by what r's hook received
UpstreamExchange(r) ==
    IF Settled(r, "response") THEN input[r].value ELSE input[r].value.response

RequestPolicy(request) ==
    Prop("headers", request, "headers")
       @@ Prop("whitelistHeaders", opts, "whitelistRequestHeaders")
       @@ Prop("blacklistHeaders", opts, "blacklistRequestHeaders")
ResponsePolicy(headers) ==
    [headers |-> headers] @@ Prop("whitelistHeaders", opts, "whitelistResponseHeaders")
                          @@ Prop("blacklistHeaders", opts, "blacklistResponseHeaders")
Listed(o, k) == IF Has(o, k) THEN Elems(o[k]) ELSE {}

\* C1: every invocation of the rejection hook ends, for the caller, in a
\* rejection carrying the very error that was passed in.
C1_ErrorPropagates ==
    \A r \in Reqs : Settled(r, "error") => outcome[r] = Rejected(input[r].value)

\* C2: every fulfilment-hook invocation calls logger.info and never logger.error;
\* every rejection-hook invocation calls logger.error and never logger.info.
C2_SinkSeverity ==
    \A r \in Reqs :
       /\ Settled(r, "response") =>
             /\ Len(sink[r]) >= 1
             /\ \A i \in DOMAIN sink[r] : sink[r][i].level = "info"
       /\ Settled(r, "error") =>
             /\ Len(sink[r]) >= 1
             /\ \A i \in DOMAIN sink[r] : sink[r][i].level = "error"

\* C3: filterHeaders keeps exactly the keys (W \cap keys(H)) \ B when an
\* allow-list W is given and keys(H) \ B when it is not, each with its value
\* from H; with neither list the result equals H.  A header or a listed
\* name may be any name, "undefined" and "constructor" included.
C3_FilterHeadersKeys ==
    result # Undefined =>
       LET H   == args.headers
           out == result.value
           allowed == IF Has(args, "whitelistHeaders")
                      THEN Elems(args.whitelistHeaders) \cap DOMAIN H
                      ELSE DOMAIN H
       IN  /\ DOMAIN out = allowed \ Listed(args, "blacklistHeaders")
           /\ \A k \in DOMAIN out : out[k] = H[k]
           /\ (~Has(args, "whitelistHeaders") /\ ~Has(args, "blacklistHeaders")) => out = H

\* C4: the fulfilment hook returns the exchange it received, with every field
\* as the client produced it, whatever the header lists removed from the logged copies.
C4_PassThrough ==
    \A r \in Reqs :
       Settled(r, "response") =>
          /\ outcome[r] = Fulfilled(input[r].value)
          /\ outcome[r].value.config = config[r]

\* C4 witness: a fulfilled request whose logged response headers lost a
\* header to the lists.
C4_Witness ==
    \E r \in Reqs :
       /\ Settled(r, "response")
       /\ outcome[r].kind = "fulfilled"
       /\ \E p \in Payloads(r) :
             /\ p.response.headers # input[r].value.headers
             /\ DOMAIN p.response.headers # {}

\* C5: a rejection whose error carries an upstream response makes exactly one
\* logger.error call, with payload {request, response} normalised from that
\* response and the message "{line} {statusCode}" with the upstream status.
C5_ErrorWithResponseLogged ==
    \A r \in Reqs :
       (/\ Settled(r, "error")
        /\ Has(input[r].value, "response")
        /\ Has(input[r].value.response, "status")) =>
          /\ Len(sink[r]) = 1
          /\ sink[r][1].level = "error"
          /\ DOMAIN sink[r][1].payload = {"request", "response"}
          /\ sink[r][1].payload.response.statusCode = input[r].value.response.status
          /\ sink[r][1].msg = makeRequestLine(sink[r][1].payload.request) \o " "
                                \o ToString(input[r].value.response.status)

\* the other headers of the config appear with the config's values
C6_OtherHeadersKept ==
    \A k \in DOMAIN args.headers \ {"host"} :
       Has(result.value.headers, k) /\ result.value.headers[k] = args.headers[k]

\* the spec's example: http://example.com/x with headers {auth: 't'}
C6_Example ==
    (args.url = UrlExample /\ args.headers = [auth |-> "t"]) =>
        /\ result.value.headers = [host |-> Str("example.com"), auth |-> "t"]
        /\ result.value.url = Str("/x")

\* C6 as stated: the host entry of the loggable request built from a config
\* always equals the host parsed from config.url, even when config.headers
\* has a host entry of its own; the other headers keep the config's values.
C6_HostAlwaysFromUrl ==
    result # Undefined =>
       /\ ~result.threw
       /\ result.value.headers.host = URLparse(args.url).value.host
       /\ C6_OtherHeadersKept
       /\ C6_Example

\* C6 as amended: the host entry is config.headers.host when the config has
\* one and the host parsed from config.url otherwise; the other headers keep
\* the config's values.  When url.parse throws on config.url, no request is
\* built and the call throws that error.
C6_HostDefaultsFromUrl ==
    result # Undefined =>
       IF URLparse(args.url).threw THEN result = URLparse(args.url)
       ELSE /\ ~result.threw
            /\ result.value.headers.host =
                  IF Has(args.headers, "host") THEN args.headers.host
                  ELSE URLparse(args.url).value.host
            /\ C6_OtherHeadersKept
            /\ C6_Example

\* C6 witness: a request built from a config whose own host header differs
\* from the host of its URL.
C6_Witness ==
    /\ result # Undefined
    /\ ~result.threw
    /\ Has(args.headers, "host")
    /\ URLparse(args.url).value.host # Null
    /\ args.headers.host # URLparse(args.url).value.host
    /\ Has(args.headers, "auth")

\* C7: in every logged response, responseTime is the completion time read at
\* normalisation minus the time stamped on the request's config, in
\* milliseconds: not negative when the clock did not go back, and the raw
\* negative difference when it did.
C7_ResponseTimeIsDifference ==
    \A r \in Reqs : \A p \in Payloads(r) :
       Has(p, "response") =>
          LET completion == getTime(p.response.timestamp)
          IN  /\ config[r].timestamp = toISOString(stampedAt[r])
              /\ p.response.responseTime = completion - stampedAt[r]
              /\ stampedAt[r] <= completion => p.response.responseTime >= 0
              /\ stampedAt[r] > completion => p.response.responseTime < 0

\* C7 witness: a response logged at a clock reading earlier than the stamp.
C7_Witness ==
    \E r \in Reqs : \E p \in Payloads(r) :
       /\ Has(p, "response")
       /\ getTime(p.response.timestamp) < stampedAt[r]
       /\ p.response.responseTime < 0

IsIndeterminate(r) ==
    /\ Settled(r, "error")
    /\ ~Has(input[r].value, "response")
    /\ ~Has(input[r].value, "config")

\* C8 as stated: an error with neither response nor config is logged with the
\* message "Undefined client request ERROR" and a payload whose single key is error.
C8_OnlyErrorKey ==
    \A r \in Reqs :
       IsIndeterminate(r) =>
          /\ Len(sink[r]) = 1
          /\ sink[r][1].msg = "Undefined client request ERROR"
          /\ DOMAIN sink[r][1].payload = {"error"}
          /\ sink[r][1].payload.error = input[r].value

\* C8 as amended: the message is "Undefined client request ERROR" and the
\* payload is {request: undefined, error}: no loggable request was built, and
\* the request key is there, holding undefined.
C8_IndeterminateFailure ==
    \A r \in Reqs :
       IsIndeterminate(r) =>
          /\ Len(sink[r]) = 1
          /\ sink[r][1].level = "error"
          /\ sink[r][1].msg = "Undefined client request ERROR"
          /\ sink[r][1].payload = [request |-> Undefined, error |-> input[r].value]

\* C8 witness: an error with neither response nor config went through the hook.
C8_Witness ==
    \E r \in Reqs : IsIndeterminate(r) /\ Len(sink[r]) = 1 /\ outcome[r].kind = "rejected"

C10_StampOfOwnRequest ==
    \A r \in Reqs : \A p \in Payloads(r) :
       /\ p.request # Undefined => p.request.timestamp = toISOString(stampedAt[r])
       /\ Has(p, "response") =>
             p.response.responseTime = getTime(p.response.timestamp) - stampedAt[r]

\* a hook invocation changes nothing of the requests it does not run for
C10_OthersUntouched ==
    [][ \A r \in Reqs :
          phase'[r] = phase[r] =>
             /\ sink'[r] = sink[r]
             /\ outcome'[r] = outcome[r]
             /\ config'[r] = config[r]
             /\ stampedAt'[r] = stampedAt[r] ]_vars

\* C10: with several requests in flight and their hooks interleaved, each
\* payload's request.timestamp is the value stamped at that request's own
\* logRequest call, each responseTime is measured from that stamp, and no
\* hook invocation for one request changes what is logged for another.
C10_OwnStamp == []C10_StampOfOwnRequest /\ C10_OthersUntouched

\* C10 witness: a request logged with its own stamp while another request,
\* stamped at a different clock reading, is still in flight.
C10_Witness ==
    \E r1 \in Reqs, r2 \in Reqs :
       /\ r1 # r2
       /\ phase[r2] = "issued"
       /\ stampedAt[r2] # stampedAt[r1]
       /\ \E p \in Payloads(r1) :
             /\ Has(p, "response")
             /\ p.request.timestamp = toISOString(stampedAt[r1])
             /\ p.request.timestamp # config[r2].timestamp

=============================================================================
